---- MODULE Spec2Model ----
(***************************************************************************)
(* Model of the job-alert pipeline of data-engineer-job-search.            *)
(*                                                                         *)
(* Two programs are modelled, both defining a class JobAlertAutomation:    *)
(*   variant "alert" : src/job_alert.py              (Naukri + portals)    *)
(*   variant "feed"  : src/job_search_automation.py  (Indeed RSS)          *)
(*                                                                         *)
(* A Python str is a sequence of one-character strings, so that lower(),   *)
(* strip(), the `in` substring test, startswith() and re.findall(r'\d+')   *)
(* are computed on the characters.  Python's None is the value None below. *)
(***************************************************************************)
EXTENDS Integers, Sequences, FiniteSets, TLC

VARIABLES
    variant,        \* which program runs: "alert" or "feed"
    pc,             \* position of run() (or of the filter call)
    jobs,           \* self.jobs
    merged,         \* self.jobs as it was when remove_duplicates was called
    response,       \* the local `response` of the adapter that is running
    portal_i,       \* index of the company the portal loop is at
    env,            \* the credentials present in os.environ
    excel_file,     \* the value the report builder returned to run()
    artifact,       \* job_alerts.xlsx on disk: [exists, rows]
    writer,         \* what the spreadsheet writer did: "unused", "ok", "error"
    send_result,    \* the value the notifier returned to run()
    smtp_attempted, \* TRUE once a connection to the mail relay was opened
    calls,          \* the methods run() has invoked, in order
    exp_string,     \* argument of the experience filter call under test
    verdict         \* value returned by that call

vars == <<variant, pc, jobs, merged, response, portal_i, env, excel_file, artifact,
          writer, send_result, smtp_attempted, calls, exp_string, verdict>>

(***************************************************************************)
(* Bounds of the model.                                                    *)
(***************************************************************************)
MaxEntries == 3     \* candidate entries (cards, feed items) in one response
MaxLinks == 1       \* anchors in one career-portal page
MaxFrags == 3       \* fragments concatenated into an experience text

(***************************************************************************)
(* Python values and str operations.                                       *)
(***************************************************************************)
None == <<"None">>

UPPER == <<"A","B","C","D","E","F","G","H","I","J","K","L","M",
           "N","O","P","Q","R","S","T","U","V","W","X","Y","Z">>
LOWER == <<"a","b","c","d","e","f","g","h","i","j","k","l","m",
           "n","o","p","q","r","s","t","u","v","w","x","y","z">>
DIGITS == <<"0","1","2","3","4","5","6","7","8","9">>

Range(s) == {s[i] : i \in 1..Len(s)}

lower_char(c) ==
    IF \E i \in 1..26 : UPPER[i] = c
    THEN LOWER[CHOOSE i \in 1..26 : UPPER[i] = c]
    ELSE c

\* str.lower()
lower(text) == [i \in 1..Len(text) |-> lower_char(text[i])]

\* `sub in text`
contains(text, sub) ==
    \E i \in 0..(Len(text) - Len(sub)) : SubSeq(text, i + 1, i + Len(sub)) = sub

\* str.startswith(prefix)
startswith(text, prefix) ==
    /\ Len(prefix) <= Len(text)
    /\ SubSeq(text, 1, Len(prefix)) = prefix

\* str.strip(): leading and trailing whitespace removed
strip(text) ==
    LET keep == {i \in 1..Len(text) : text[i] # " "}
    IN  IF keep = {} THEN <<>>
        ELSE SubSeq(text,
                    CHOOSE i \in keep : \A j \in keep : i <= j,
                    CHOOSE i \in keep : \A j \in keep : j <= i)

is_digit(c) == \E i \in 1..10 : DIGITS[i] = c

digit_value(c) == (CHOOSE i \in 1..10 : DIGITS[i] = c) - 1

\* re.findall(r'\d+', text): the maximal runs of digits, left to right
RECURSIVE findall_digits(_, _, _)
findall_digits(text, i, run) ==
    IF i > Len(text)
    THEN IF run = <<>> THEN <<>> ELSE <<run>>
    ELSE IF is_digit(text[i])
         THEN findall_digits(text, i + 1, Append(run, text[i]))
         ELSE (IF run = <<>> THEN <<>> ELSE <<run>>)
              \o findall_digits(text, i + 1, <<>>)

\* int(n) of a run of digits
RECURSIVE int_of(_)
int_of(n) ==
    IF n = <<>> THEN 0
    ELSE int_of(SubSeq(n, 1, Len(n) - 1)) * 10 + digit_value(n[Len(n)])

\* max(list), min(list)
max_of(s) == CHOOSE m \in Range(s) : \A x \in Range(s) : x <= m
min_of(s) == CHOOSE m \in Range(s) : \A x \in Range(s) : m <= x

\* [int(n) for n in re.findall(r'\d+', text)]
numbers_in(text) ==
    LET found == findall_digits(text, 1, <<>>)
    IN  [i \in 1..Len(found) |-> int_of(found[i])]

(***************************************************************************)
(* String literals of the two programs.                                    *)
(***************************************************************************)
NotSpecified == <<"N","o","t"," ","S","p","e","c","i","f","i","e","d">>
Fresher == <<"f","r","e","s","h","e","r">>
Entry == <<"e","n","t","r","y">>
EntryLevel == <<"e","n","t","r","y"," ","l","e","v","e","l">>

(***************************************************************************)
(* Experience filter.                                                      *)
(***************************************************************************)
\* variant of is_valid_experience that accepts below 2 years only
is_valid_experience_below(exp_str) ==
    IF exp_str = None \/ exp_str = <<>> \/ exp_str = NotSpecified THEN TRUE
    ELSE LET exp_lower == lower(exp_str)
             numbers == numbers_in(exp_lower)
         IN  IF contains(exp_lower, Fresher) \/ contains(exp_lower, Entry)
             THEN TRUE
             ELSE IF numbers # <<>> THEN max_of(numbers) < 2
             ELSE TRUE

\* variant of is_valid_experience that looks at the smallest number
is_valid_experience_min(exp_str) ==
    IF exp_str = None \/ exp_str = <<>> \/ exp_str = NotSpecified THEN TRUE
    ELSE LET exp_lower == lower(exp_str)
             numbers == numbers_in(exp_lower)
         IN  IF contains(exp_lower, Fresher) \/ contains(exp_lower, Entry)
             THEN TRUE
             ELSE IF numbers # <<>> THEN min_of(numbers) <= 2
             ELSE TRUE

\* job_alert.py: is_valid_experience(exp_string)
is_valid_experience(exp_str) ==
    IF exp_str = None \/ exp_str = <<>> \/ exp_str = NotSpecified THEN TRUE
    ELSE LET exp_lower == lower(exp_str)
             numbers == numbers_in(exp_lower)
         IN  IF contains(exp_lower, Fresher) \/ contains(exp_lower, Entry)
             THEN TRUE
             ELSE IF numbers # <<>> THEN max_of(numbers) <= 2
             ELSE TRUE

\* job_search_automation.py: is_valid_experience(text), text a str
\* (text = None raises AttributeError at text.lower(): see rss_item)
is_valid_experience_rss(text) ==
    LET t == lower(text)
        numbers == numbers_in(t)
    IN  IF contains(t, Fresher) \/ contains(t, EntryLevel) THEN TRUE
        ELSE IF numbers # <<>> THEN max_of(numbers) <= 2
        ELSE TRUE

DataEngineer == <<"D","a","t","a"," ","E","n","g","i","n","e","e","r">>
data_engineer == <<"d","a","t","a"," ","e","n","g","i","n","e","e","r">>
India == <<"I","n","d","i","a">>
CheckPortal == <<"C","h","e","c","k"," ","P","o","r","t","a","l">>
ZeroTwoYears == <<"0","-","2"," ","y","e","a","r","s">>
NaukriSource == <<"N","a","u","k","r","i",".","c","o","m">>
PortalSuffix == <<" ","P","o","r","t","a","l">>
NaukriBase == <<"h","t","t","p","s",":","/","/","w","w","w",".","n","a","u","k","r","i",".","c","o","m">>
Http == <<"h","t","t","p">>
Slash == <<"/">>
Data == <<"d","a","t","a">>
Engineer == <<"e","n","g","i","n","e","e","r">>
Cognizant == <<"C","o","g","n","i","z","a","n","t">>
TCS == <<"T","C","S">>
Infosys == <<"I","n","f","o","s","y","s">>
CheckIndeedPosting == <<"C","h","e","c","k"," ","I","n","d","e","e","d"," ","P","o","s","t","i","n","g">>
IndeedRSS == <<"I","n","d","e","e","d"," ","R","S","S">>
\* the feed variant's "<= 2 years", whose first character is U+2264, written "<="
LeTwoYears == <<"<=", " ", "2", " ", "y", "e", "a", "r", "s">>
\* the feed variant's message row; "<=" again stands for U+2264
NoJobsMessage == "No Data Engineer (<=2 YOE) jobs found today."
OutputFile == "job_alerts.xlsx"
\* datetime.now().strftime('%Y-%m-%d'), the same day throughout a run
RunDate == <<"2","0","2","6","-","1","1","-","0","1">>
\* a cell pandas fills in for a key a dict lacks
NaN == <<"NaN">>

Credentials == {"SENDER_EMAIL", "EMAIL_PASSWORD", "RECIPIENT_EMAIL"}
Variants == {"alert", "feed"}
\* the [:25] of the Naukri card loop and the [:5] of the portal link loop
CardCap == 25
LinkCap == 5
\* HTTP statuses a fetch can end with: success and a server error
Statuses == {200, 503}

SeqUpTo(S, n) == UNION {[1..k -> S] : k \in 0..n}
Take(s, n) == SubSeq(s, 1, IF Len(s) < n THEN Len(s) ELSE n)

(***************************************************************************)
(* Responses.  requests.get either raises (timeout, connection failure) or *)
(* returns a response with a status and a body; neither program looks at   *)
(* the status.  The body is given by what the parser finds in it: the      *)
(* candidate entries, and for the XML feed whether it is well-formed.      *)
(***************************************************************************)
NoResponse == [kind |-> "none", status |-> 0, wellformed |-> TRUE, entries |-> <<>>]
Raised == [kind |-> "raised", status |-> 0, wellformed |-> TRUE, entries |-> <<>>]
Received(st, wf, es) ==
    [kind |-> "received", status |-> st, wellformed |-> wf, entries |-> es]

(***************************************************************************)
(* Naukri cards: the .text of the elements card.find() returns (None when  *)
(* the element is missing), the href of the title anchor, and whether a    *)
(* statement of the card's try block raises.                               *)
(***************************************************************************)
Card(t, c, l, s, e, h, r) ==
    [title_elem |-> t, company_elem |-> c, location_elem |-> l,
     salary_elem |-> s, exp_elem |-> e, href |-> h, raises |-> r]

NaukriCards == {
    Card(<<" ">> \o DataEngineer \o <<" ">>, TCS, India, None,
         <<"0","-","2"," ","Y","r","s">>, <<"/","j","o","b","-","1">>, FALSE),
    Card(DataEngineer, TCS, India, <<"5"," ","L","P","A">>, None,
         <<"h","t","t","p","s",":","/","/","x",".","i","n","/","2">>, FALSE),
    Card(DataEngineer, <<"A","c","m","e">>, <<"R","e","m","o","t","e">>, None,
         <<"5","-","7"," ","Y","r","s">>, <<"/","j","o","b","-","3">>, FALSE),
    Card(DataEngineer, None, India, None, None, <<"/","j","o","b","-","4">>, FALSE),
    Card(DataEngineer, TCS, India, None, None, None, TRUE) }

\* one card of the loop of scrape_naukri_jobs: a record, a skip or a raise
naukri_card(card) ==
    IF card.raises THEN [kind |-> "raise"]
    ELSE IF card.title_elem = None \/ card.company_elem = None
            \/ card.location_elem = None
    THEN [kind |-> "skip"]
    ELSE LET title == strip(card.title_elem)
             company == strip(card.company_elem)
             location == strip(card.location_elem)
             salary == IF card.salary_elem # None
                       THEN strip(card.salary_elem) ELSE NotSpecified
             experience == IF card.exp_elem # None
                           THEN strip(card.exp_elem) ELSE NotSpecified
             url_href == IF card.href = None THEN <<>> ELSE card.href
             job_url == IF startswith(url_href, Slash)
                        THEN NaukriBase \o url_href ELSE url_href
         IN  IF is_valid_experience(experience)
             THEN [kind |-> "record",
                   rec |-> ("Job Title" :> title @@ "Company" :> company
                            @@ "Location" :> location @@ "Salary" :> salary
                            @@ "Experience" :> experience
                            @@ "Source" :> NaukriSource @@ "Job URL" :> job_url
                            @@ "Posted Date" :> RunDate)]
             ELSE [kind |-> "skip"]

\* the card loop: a raise is caught inside the loop and the loop goes on
RECURSIVE naukri_loop(_, _)
naukri_loop(cards, acc) ==
    IF cards = <<>> THEN acc
    ELSE LET r == naukri_card(Head(cards))
         IN  naukri_loop(Tail(cards),
                         IF r.kind = "record" THEN Append(acc, r.rec) ELSE acc)

(***************************************************************************)
(* Career portals: the anchors of the page are given by their href (None   *)
(* when the anchor has none).                                              *)
(***************************************************************************)
companies == <<Cognizant, TCS, Infosys>>

PortalAnchors == {
    <<"/","j","o","b","s","/","D","a","t","a","-","E","n","g","i","n","e","e","r">>,
    <<"j","o","b","s","/","e","n","g","i","n","e","e","r","-","d","a","t","a">>,
    <<"/","a","b","o","u","t">>,
    None }

\* re.compile(r'data.*engineer|engineer.*data', re.IGNORECASE).search(href)
href_matches(href) ==
    /\ href # None
    /\ LET t == lower(href)
           at(sub) == {i \in 1..(Len(t) - Len(sub) + 1) :
                         SubSeq(t, i, i + Len(sub) - 1) = sub}
       IN  \E i \in at(Data), j \in at(Engineer) :
               j >= i + Len(Data) \/ i >= j + Len(Engineer)

\* soup.find_all('a', href=...)
find_all_links(anchors) == SelectSeq(anchors, href_matches)

portal_record(company, href) ==
    "Job Title" :> DataEngineer @@ "Company" :> company @@ "Location" :> India
    @@ "Salary" :> CheckPortal @@ "Experience" :> ZeroTwoYears
    @@ "Source" :> (company \o PortalSuffix) @@ "Job URL" :> href
    @@ "Posted Date" :> RunDate

\* the link loop of one company
RECURSIVE portal_loop(_, _, _)
portal_loop(links, company, acc) ==
    IF links = <<>> THEN acc
    ELSE LET href == Head(links)
         IN  portal_loop(Tail(links), company,
                 IF href # <<>> /\ (contains(href, Http) \/ startswith(href, Slash))
                 THEN Append(acc, portal_record(company, href)) ELSE acc)

(***************************************************************************)
(* Indeed RSS items: each child element is NoElem when item.find() finds   *)
(* none, None when the element is empty (its .text is None), else its text.*)
(***************************************************************************)
NoElem == <<"NoElem">>
Item(t, l, d, p) == [title |-> t, link |-> l, description |-> d, pubDate |-> p]

FeedItems == {
    Item(DataEngineer, <<"h","t","t","p","s",":","/","/","i","n",".","i","n","d","e","e","d",".","c","o","m","/","1">>, <<"0","-","2"," ","y","e","a","r","s">>,
         <<"S","a","t",","," ","3","1"," ","O","c","t">>),
    Item(DataEngineer \o <<" ">>, <<"h","t","t","p","s",":","/","/","i","n",".","i","n","d","e","e","d",".","c","o","m","/","1">>, NoElem,
         <<"S","u","n",","," ","0","1"," ","N","o","v">>),
    Item(<<"S","e","n","i","o","r"," ","D","A","T","A"," ","E","N","G","I","N","E","E","R"," ">>, <<"h","t","t","p","s",":","/","/","i","n",".","i","n","d","e","e","d",".","c","o","m","/","2">>,
         <<"5","+"," ","y","e","a","r","s">>, NoElem),
    Item(<<"A","n","a","l","y","s","t">>, <<"h","t","t","p","s",":","/","/","i","n",".","i","n","d","e","e","d",".","c","o","m","/","3">>, NoElem, NoElem),
    Item(None, <<"h","t","t","p","s",":","/","/","i","n",".","i","n","d","e","e","d",".","c","o","m","/","4">>, NoElem, NoElem) }

\* x.text if item.find(x) is not None else ""
text_or_empty(elem) == IF elem = NoElem THEN <<>> ELSE elem

\* one item of the loop of scrape_indeed_rss: a record, a skip or a raise
\* (None.lower() raises AttributeError)
rss_item(item) ==
    LET title == text_or_empty(item.title)
        link == text_or_empty(item.link)
        description == text_or_empty(item.description)
        pub_date == text_or_empty(item.pubDate)
    IN  IF title = None THEN [kind |-> "raise"]
        ELSE IF ~contains(lower(title), data_engineer) THEN [kind |-> "skip"]
        ELSE IF description = None THEN [kind |-> "raise"]
        ELSE IF ~is_valid_experience_rss(description) THEN [kind |-> "skip"]
        ELSE [kind |-> "record",
              rec |-> ("Job Title" :> strip(title)
                       @@ "Company" :> CheckIndeedPosting @@ "Location" :> India
                       @@ "Experience" :> LeTwoYears @@ "Source" :> IndeedRSS
                       @@ "Posted Date" :> pub_date @@ "Job URL" :> link)]

\* the item loop: nothing inside the loop catches, so a raise ends the loop
\* and the records appended so far stay in self.jobs
RECURSIVE rss_loop(_, _)
rss_loop(items, acc) ==
    IF items = <<>> THEN acc
    ELSE LET r == rss_item(Head(items))
         IN  IF r.kind = "raise" THEN acc
             ELSE rss_loop(Tail(items),
                           IF r.kind = "record" THEN Append(acc, r.rec) ELSE acc)

(***************************************************************************)
(* Deduplication: pandas.                                                  *)
(***************************************************************************)
\* pd.DataFrame(list of dicts): one row per dict, one column per key of any
\* dict, NaN where a dict lacks the key; df.to_dict('records') gives the rows
DataFrame(records) ==
    LET columns == UNION {DOMAIN records[i] : i \in 1..Len(records)}
    IN  [i \in 1..Len(records) |->
            [c \in columns |-> IF c \in DOMAIN records[i] THEN records[i][c] ELSE NaN]]

key_of(row, subset) == [c \in subset |-> row[c]]

RECURSIVE keep_first(_, _, _, _)
keep_first(rows, subset, seen, out) ==
    IF rows = <<>> THEN out
    ELSE LET k == key_of(Head(rows), subset)
         IN  IF k \in seen
             THEN keep_first(Tail(rows), subset, seen, out)
             ELSE keep_first(Tail(rows), subset, seen \cup {k}, Append(out, Head(rows)))

Reverse(s) == [i \in 1..Len(s) |-> s[Len(s) + 1 - i]]

\* drop_duplicates that keeps the last row of each key (keep='last')
drop_duplicates_last(rows, subset) ==
    Reverse(keep_first(Reverse(rows), subset, {}, <<>>))

\* drop_duplicates written as a removal from the list being iterated: the row
\* after a removed one is stepped over, so it stays whatever its key
RECURSIVE remove_in_loop(_, _, _, _)
remove_in_loop(rows, subset, seen, out) ==
    IF rows = <<>> THEN out
    ELSE LET k == key_of(Head(rows), subset)
         IN  IF k \in seen
             THEN IF Len(rows) = 1 THEN out
                  ELSE remove_in_loop(Tail(Tail(rows)), subset, seen,
                                      Append(out, rows[2]))
             ELSE remove_in_loop(Tail(rows), subset, seen \cup {k},
                                 Append(out, Head(rows)))

drop_duplicates_in_loop(rows, subset) == remove_in_loop(rows, subset, {}, <<>>)

\* df.drop_duplicates(subset=..., keep='first'), keep='first' being the default
drop_duplicates(rows, subset) == keep_first(rows, subset, {}, <<>>)

\* the body of remove_duplicates, of either program, on self.jobs
deduplicate(records, subset) ==
    IF records = <<>> THEN records
    ELSE drop_duplicates(DataFrame(records), subset)

KeyAlert == {"Company", "Job Title", "Location"}
KeyFeed == {"Job Title", "Job URL"}
Key == IF variant = "alert" THEN KeyAlert ELSE KeyFeed

(***************************************************************************)
(* Report.                                                                 *)
(***************************************************************************)
NoArtifact == [exists |-> FALSE, columns |-> <<>>, rows |-> <<>>]

column_order == <<"Job Title", "Company", "Location", "Salary", "Experience",
                  "Source", "Posted Date", "Job URL">>
\* the key order of the dicts scrape_indeed_rss appends
rss_columns == <<"Job Title", "Company", "Location", "Experience", "Source",
                 "Posted Date", "Job URL">>

\* df.to_excel(..., index=False): a header row and one row per row of df
to_excel(df, columns) ==
    [exists |-> TRUE, columns |-> columns,
     rows |-> [i \in 1..Len(df) |-> [j \in 1..Len(columns) |-> df[i][columns[j]]]]]

(***************************************************************************)
(* Notification.                                                           *)
(***************************************************************************)
\* a guard that looks at the sender address only
sender_missing(e) == "SENDER_EMAIL" \notin e

\* not sender_email or not email_password or not recipient_email
credentials_missing(e) ==
    \/ "SENDER_EMAIL" \notin e
    \/ "EMAIL_PASSWORD" \notin e
    \/ "RECIPIENT_EMAIL" \notin e

\* what the relay does once the message is composed
SmtpOutcomes == {"sent", "auth_error", "error"}

(***************************************************************************)
(* The run of the pipeline.                                                *)
(***************************************************************************)
Init ==
    /\ variant \in Variants
    /\ pc = IF variant = "alert" THEN "naukri_get" ELSE "rss_get"
    /\ jobs = <<>>
    /\ merged = <<>>
    /\ response = NoResponse
    /\ portal_i = 1
    /\ env \in SUBSET Credentials
    /\ excel_file = "unset"
    /\ artifact = NoArtifact
    /\ writer = "unused"
    /\ send_result = "unset"
    /\ smtp_attempted = FALSE
    /\ calls = <<>>
    /\ exp_string = <<>>
    /\ verdict = TRUE

NaukriResponses ==
    {Raised} \cup {Received(st, TRUE, es) :
                      st \in Statuses, es \in SeqUpTo(NaukriCards, MaxEntries)}
PortalResponses ==
    {Raised} \cup {Received(st, TRUE, es) :
                      st \in Statuses, es \in SeqUpTo(PortalAnchors, MaxLinks)}
FeedResponses ==
    {Raised} \cup {Received(st, FALSE, <<>>) : st \in Statuses}
    \cup {Received(st, TRUE, es) :
             st \in Statuses, es \in SeqUpTo(FeedItems, MaxEntries)}

\* ---- job_alert.py ----

\* run() calls scrape_naukri_jobs, which calls requests.get
naukri_get ==
    /\ variant = "alert" /\ pc = "naukri_get"
    /\ calls' = Append(calls, "scrape_naukri_jobs")
    /\ response' \in NaukriResponses
    /\ pc' = "naukri_parse"
    /\ UNCHANGED <<variant, merged, jobs, portal_i, env, excel_file, artifact, writer,
                   send_result, smtp_attempted, exp_string, verdict>>

\* the rest of scrape_naukri_jobs: the except of the outer try when
\* requests.get raised, the card loop otherwise
scrape_naukri_jobs ==
    /\ variant = "alert" /\ pc = "naukri_parse"
    /\ jobs' = IF response.kind = "raised" THEN jobs
               ELSE naukri_loop(Take(response.entries, CardCap), jobs)
    /\ response' = NoResponse
    /\ pc' = "portal_get"
    /\ UNCHANGED <<variant, merged, portal_i, env, excel_file, artifact, writer,
                   send_result, smtp_attempted, calls, exp_string, verdict>>

\* run() calls scrape_company_portals; each turn of its loop calls requests.get
portal_get ==
    /\ variant = "alert" /\ pc = "portal_get"
    /\ calls' = IF portal_i = 1 THEN Append(calls, "scrape_company_portals")
                ELSE calls
    /\ response' \in PortalResponses
    /\ pc' = "portal_parse"
    /\ UNCHANGED <<variant, merged, jobs, portal_i, env, excel_file, artifact, writer,
                   send_result, smtp_attempted, exp_string, verdict>>

\* the rest of one turn of the company loop
scrape_company_portals ==
    /\ variant = "alert" /\ pc = "portal_parse"
    /\ jobs' = IF response.kind = "raised" THEN jobs
               ELSE portal_loop(Take(find_all_links(response.entries), LinkCap),
                                companies[portal_i], jobs)
    /\ response' = NoResponse
    /\ IF portal_i < Len(companies)
       THEN portal_i' = portal_i + 1 /\ pc' = "portal_get"
       ELSE portal_i' = portal_i /\ pc' = "dedup"
    /\ UNCHANGED <<variant, merged, env, excel_file, artifact, writer,
                   send_result, smtp_attempted, calls, exp_string, verdict>>

remove_duplicates ==
    /\ variant = "alert" /\ pc = "dedup"
    /\ calls' = Append(calls, "remove_duplicates")
    /\ merged' = jobs
    /\ jobs' = deduplicate(jobs, KeyAlert)
    /\ pc' = "report"
    /\ UNCHANGED <<variant, response, portal_i, env, excel_file, artifact, writer,
                   send_result, smtp_attempted, exp_string, verdict>>

\* generate_excel_report, and run()'s `if excel_file:` on what it returns
generate_excel_report ==
    /\ variant = "alert" /\ pc = "report"
    /\ calls' = Append(calls, "generate_excel_report")
    /\ IF jobs = <<>>
       THEN /\ excel_file' = "None"
            /\ pc' = "done"
            /\ UNCHANGED <<artifact, writer>>
       ELSE \E ok \in BOOLEAN :
                IF ok
                THEN /\ artifact' =
                            LET df == DataFrame(jobs)
                                present(col) == col \in DOMAIN df[1]
                            IN  to_excel(df, SelectSeq(column_order, present))
                     /\ writer' = "ok"
                     /\ excel_file' = OutputFile
                     /\ pc' = "notify"
                ELSE /\ writer' = "error"
                     /\ excel_file' = "None"
                     /\ pc' = "done"
                     /\ UNCHANGED artifact
    /\ UNCHANGED <<variant, merged, jobs, response, portal_i, env, send_result,
                   smtp_attempted, exp_string, verdict>>

send_email_alert ==
    /\ variant = "alert" /\ pc = "notify"
    /\ calls' = Append(calls, "send_email_alert")
    /\ IF credentials_missing(env) \/ ~artifact.exists
       THEN send_result' = "False" /\ UNCHANGED smtp_attempted
       ELSE \E outcome \in SmtpOutcomes :
                /\ smtp_attempted' = TRUE
                /\ send_result' = IF outcome = "sent" THEN "True" ELSE "False"
    /\ pc' = "done"
    /\ UNCHANGED <<variant, merged, jobs, response, portal_i, env, excel_file, artifact,
                   writer, exp_string, verdict>>

\* ---- job_search_automation.py ----

rss_get ==
    /\ variant = "feed" /\ pc = "rss_get"
    /\ calls' = Append(calls, "scrape_indeed_rss")
    /\ response' \in FeedResponses
    /\ pc' = "rss_parse"
    /\ UNCHANGED <<variant, merged, jobs, portal_i, env, excel_file, artifact, writer,
                   send_result, smtp_attempted, exp_string, verdict>>

\* the rest of scrape_indeed_rss: its one except catches a raise of
\* requests.get, of ET.fromstring and of any item of the loop
scrape_indeed_rss ==
    /\ variant = "feed" /\ pc = "rss_parse"
    /\ jobs' = IF response.kind = "raised" \/ ~response.wellformed THEN jobs
               ELSE rss_loop(response.entries, jobs)
    /\ response' = NoResponse
    /\ pc' = "dedup"
    /\ UNCHANGED <<variant, merged, portal_i, env, excel_file, artifact, writer,
                   send_result, smtp_attempted, calls, exp_string, verdict>>

remove_duplicates_rss ==
    /\ variant = "feed" /\ pc = "dedup"
    /\ calls' = Append(calls, "remove_duplicates")
    /\ merged' = jobs
    /\ jobs' = deduplicate(jobs, KeyFeed)
    /\ pc' = "report"
    /\ UNCHANGED <<variant, response, portal_i, env, excel_file, artifact, writer,
                   send_result, smtp_attempted, exp_string, verdict>>

\* generate_excel: nothing catches a raise of df.to_excel, it ends run()
generate_excel ==
    /\ variant = "feed" /\ pc = "report"
    /\ calls' = Append(calls, "generate_excel")
    /\ \E ok \in BOOLEAN :
           IF ok
           THEN /\ artifact' =
                       IF jobs = <<>>
                       THEN to_excel(<<[Message |-> NoJobsMessage]>>, <<"Message">>)
                       ELSE to_excel(DataFrame(jobs), rss_columns)
                /\ writer' = "ok"
                /\ excel_file' = OutputFile
                /\ pc' = "notify"
           ELSE /\ writer' = "error"
                /\ pc' = "crashed"
                /\ UNCHANGED <<artifact, excel_file>>
    /\ UNCHANGED <<variant, merged, jobs, response, portal_i, env, send_result,
                   smtp_attempted, exp_string, verdict>>

\* send_email: every path returns None
send_email ==
    /\ variant = "feed" /\ pc = "notify"
    /\ calls' = Append(calls, "send_email")
    /\ send_result' = "None"
    /\ IF credentials_missing(env) \/ ~artifact.exists
       THEN UNCHANGED smtp_attempted
       ELSE \E outcome \in SmtpOutcomes : smtp_attempted' = TRUE
    /\ pc' = "done"
    /\ UNCHANGED <<variant, merged, jobs, response, portal_i, env, excel_file, artifact,
                   writer, exp_string, verdict>>

Next ==
    \/ naukri_get
    \/ scrape_naukri_jobs
    \/ portal_get
    \/ scrape_company_portals
    \/ remove_duplicates
    \/ generate_excel_report
    \/ send_email_alert
    \/ rss_get
    \/ scrape_indeed_rss
    \/ remove_duplicates_rss
    \/ generate_excel
    \/ send_email

Spec == Init /\ [][Next]_vars

(***************************************************************************)
(* The experience filter on its own: experience texts put together from    *)
(* fragments, and one call of the filter of either program.                *)
(***************************************************************************)
Fragments == {
    <<"f","r","e","s","h","e","r">>,
    <<"E","n","t","r","y">>,
    <<" ","l","e","v","e","l">>,
    <<"e","n">>,
    <<"t","r","y">>,
    <<"5">>,
    <<"2">>,
    <<"1">>,
    <<"0">>,
    <<"-">>,
    <<" ","y","r","s">> }

RECURSIVE concat(_)
concat(fs) == IF fs = <<>> THEN <<>> ELSE Head(fs) \o concat(Tail(fs))

Texts == {concat(fs) : fs \in SeqUpTo(Fragments, MaxFrags)}

FilterInit ==
    /\ variant \in Variants
    /\ pc = "filter_call"
    /\ exp_string \in Texts
    /\ verdict = TRUE
    /\ jobs = <<>>
    /\ merged = <<>>
    /\ response = NoResponse
    /\ portal_i = 1
    /\ env = {}
    /\ excel_file = "unset"
    /\ artifact = NoArtifact
    /\ writer = "unused"
    /\ send_result = "unset"
    /\ smtp_attempted = FALSE
    /\ calls = <<>>

filter_alert ==
    /\ variant = "alert" /\ pc = "filter_call"
    /\ verdict' = is_valid_experience(exp_string)
    /\ pc' = "filter_return"
    /\ UNCHANGED <<variant, merged, jobs, response, portal_i, env, excel_file, artifact,
                   writer, send_result, smtp_attempted, calls, exp_string>>

filter_feed ==
    /\ variant = "feed" /\ pc = "filter_call"
    /\ verdict' = is_valid_experience_rss(exp_string)
    /\ pc' = "filter_return"
    /\ UNCHANGED <<variant, merged, jobs, response, portal_i, env, excel_file, artifact,
                   writer, send_result, smtp_attempted, calls, exp_string>>

FilterNext == filter_alert \/ filter_feed

FilterSpec == FilterInit /\ [][FilterNext]_vars

(***************************************************************************)
(* Properties.                                                             *)
(***************************************************************************)
RunEnded == pc \in {"done", "crashed"}
AfterDedup == pc \in {"report", "notify", "done", "crashed"}
Called(method) == method \in Range(calls)

Stages ==
    IF variant = "alert"
    THEN <<"scrape_naukri_jobs", "scrape_company_portals", "remove_duplicates",
           "generate_excel_report", "send_email_alert">>
    ELSE <<"scrape_indeed_rss", "remove_duplicates", "generate_excel", "send_email">>

\* C1: when a run has ended (the spreadsheet writer not having failed), every
\* source adapter, then the deduplicator, the report builder and the notifier
\* have been invoked, in that order, whatever the fetches returned.
C1_EveryStageRuns == (RunEnded /\ writer # "error") => calls = Stages

\* C2: once the report builder has been called on an empty record set (the
\* spreadsheet writer not having failed), it has returned the artifact's path
\* and the artifact holds exactly one row, the "no jobs found" message.
C2_EmptyReportHasMessageRow ==
    ((Called("generate_excel_report") \/ Called("generate_excel"))
        /\ jobs = <<>> /\ writer # "error")
    => /\ excel_file = OutputFile
       /\ artifact.exists
       /\ Len(artifact.rows) = 1
       /\ artifact.rows[1] = <<NoJobsMessage>>

\* the integers written in a text: the values of its maximal runs of digits
DigitRuns(text) ==
    {r \in (1..Len(text)) \X (1..Len(text)) :
        /\ r[1] <= r[2]
        /\ \A k \in r[1]..r[2] : text[k] \in Range(DIGITS)
        /\ r[1] = 1 \/ text[r[1] - 1] \notin Range(DIGITS)
        /\ r[2] = Len(text) \/ text[r[2] + 1] \notin Range(DIGITS)}
ExtractedIntegers(text) == {int_of(SubSeq(text, r[1], r[2])) : r \in DigitRuns(text)}

MentionsFresherOrEntry(text) ==
    contains(lower(text), Fresher) \/ contains(lower(text), Entry)

\* C3: a text containing "fresher" or "entry", in any case, is accepted by the
\* experience filter whatever numbers it contains.
C3_FresherOrEntryAccepted ==
    (pc = "filter_return" /\ MentionsFresherOrEntry(exp_string)) => verdict = TRUE

\* C4: a text containing neither "fresher" nor "entry" is accepted if and only
\* if it contains no integer or its largest integer is at most 2.
C4_AcceptedIffMaxAtMostTwo ==
    (pc = "filter_return" /\ ~MentionsFresherOrEntry(exp_string))
    => (verdict <=> \A n \in ExtractedIntegers(exp_string) : n <= 2)

C4_Witness ==
    /\ pc = "filter_return" /\ variant = "feed"
    /\ ExtractedIntegers(exp_string) = {0, 2}
    /\ ~MentionsFresherOrEntry(exp_string)
    /\ verdict = TRUE

\* C5 as claimed: of a text with integers, all above 2 means rejected and at
\* least one at most 2 means accepted.
C5_AnyAtMostTwoAccepted ==
    (pc = "filter_return" /\ ExtractedIntegers(exp_string) # {})
    => /\ (\A n \in ExtractedIntegers(exp_string) : n > 2) => verdict = FALSE
       /\ (\E n \in ExtractedIntegers(exp_string) : n <= 2) => verdict = TRUE

\* C5 as amended: of a text with integers and with neither "fresher" nor
\* "entry", at least one integer above 2 means rejected and all integers at
\* most 2 means accepted.
C5_AnyAboveTwoRejected ==
    (pc = "filter_return" /\ ExtractedIntegers(exp_string) # {}
        /\ ~MentionsFresherOrEntry(exp_string))
    => /\ (\E n \in ExtractedIntegers(exp_string) : n > 2) => verdict = FALSE
       /\ (\A n \in ExtractedIntegers(exp_string) : n <= 2) => verdict = TRUE

C5_Witness ==
    /\ pc = "filter_return" /\ variant = "alert"
    /\ ExtractedIntegers(exp_string) = {1, 5}
    /\ ~MentionsFresherOrEntry(exp_string)
    /\ verdict = FALSE

\* C6: deduplicating the deduplicator's output changes nothing.
C6_DedupIdempotent == AfterDedup => deduplicate(jobs, Key) = jobs

C6_Witness ==
    /\ pc = "report"
    /\ Len(jobs) >= 2
    /\ Len(jobs) < Len(merged)

\* the records at the indices idx, in the order of the indices
RecordsAt(records, idx) ==
    [k \in 1..Cardinality(idx) |->
        records[CHOOSE i \in idx : Cardinality({j \in idx : j <= i}) = k]]
SameKey(a, b) == \A c \in Key : a[c] = b[c]
FirstOfEachKey(records) ==
    RecordsAt(records, {i \in 1..Len(records) :
                           \A j \in 1..(i - 1) : ~SameKey(records[j], records[i])})

\* C7: the deduplicator's output is the input's subsequence of the first
\* record of each key, every record as it was, and no two of them share a key.
C7_FirstOfEachKeyKept ==
    AfterDedup
    => /\ jobs = FirstOfEachKey(merged)
       /\ \A i, j \in 1..Len(jobs) : SameKey(jobs[i], jobs[j]) => i = j

C7_Witness ==
    /\ pc = "report"
    /\ \E i, j \in 1..Len(merged) :
          /\ i < j
          /\ SameKey(merged[i], merged[j])
          /\ merged[i]["Source"] # merged[j]["Source"]
          /\ Cardinality({k \in 1..Len(jobs) : SameKey(jobs[k], merged[i])}) = 1
          /\ \E k \in 1..Len(jobs) : jobs[k] = merged[i]

NotifierCalled == Called("send_email_alert") \/ Called("send_email")
\* the value the notifier returns on its failure paths
FailureValue == IF variant = "alert" THEN "False" ELSE "None"

\* C8: a notifier called with a credential absent has returned its failure
\* value, no connection to the mail relay was opened, and the run is done.
C8_MissingCredentialNoDelivery ==
    (NotifierCalled /\ Credentials \ env # {})
    => /\ send_result = FailureValue
       /\ ~smtp_attempted
       /\ pc = "done"

C8_Witness ==
    /\ Called("send_email_alert")
    /\ env = {"SENDER_EMAIL", "RECIPIENT_EMAIL"}
    /\ send_result = "False"
    /\ pc = "done"

\* what one entry of the response gives when processed on its own
EntryResult(entry) == IF variant = "alert" THEN naukri_card(entry) ELSE rss_item(entry)
Added == SubSeq(jobs', Len(jobs) + 1, Len(jobs'))

\* C9: when an entry of a parsed response raises, every entry of that response
\* that gives a record is added to the record set, before or after the failing one.
C9_OtherEntriesExtracted ==
    [][(/\ pc \in {"naukri_parse", "rss_parse"}
        /\ response.kind = "received" /\ response.wellformed
        /\ \E k \in 1..Len(response.entries) :
              EntryResult(response.entries[k]).kind = "raise")
       => \A i \in 1..Len(response.entries) :
              EntryResult(response.entries[i]).kind = "record"
              => EntryResult(response.entries[i]).rec \in Range(Added)]_vars

\* C10: an adapter whose fetch raised or ended with a non-success status adds
\* no record, and the run goes on to the next source or stage.
C10_FailedFetchAddsNothing ==
    [][(/\ pc \in {"naukri_parse", "portal_parse", "rss_parse"}
        /\ response.kind = "raised" \/ response.status # 200)
       => /\ jobs' = jobs
          /\ pc' \in {"portal_get", "dedup"}]_vars

====
